---- MODULE Spec2Model ----
(***************************************************************************)
(* The bot-network simulation (2016 day 10, part II): the pipeline         *)
(*   lines -> map(parse) -> getInitialState -> settle -> productOutputs    *)
(* A line of text is a sequence of tokens (the words between the spaces).  *)
(* Numbers are kept as digit strings where the code keeps them as strings  *)
(* (bot ids, output ids) and converted by int where the code converts.     *)
(***************************************************************************)
EXTENDS Integers, Sequences, FiniteSets, TLC

VARIABLES lines, parsed, state, iteration, snapshot, idx, pc, err, result, deferred

\* The maze search (2016 day 17, part I): the hash, the queue, where the
\* search stands, what it printed, and whether the model left paths out.
VARIABLES md5, queue, mpc, logged, truncated

botVars == <<lines, parsed, state, iteration, snapshot, idx, pc, err, result, deferred>>

mazeVars == <<md5, queue, mpc, logged, truncated>>

vars == <<lines, parsed, state, iteration, snapshot, idx, pc, err, result, deferred,
          md5, queue, mpc, logged, truncated>>

\* Longest input drawn from SmallLines line by line.
MaxLen == 3

\* settle's recursion ceiling.
MaxIteration == 100

----------------------------------------------------------------------------
\* Text

Digits == <<"0", "1", "2", "3", "4", "5", "6", "7", "8", "9">>

\* \d+ : the tokens made of decimal digits.
IsDigits(tok) == \E i \in 1..Len(Digits) : Digits[i] = tok

\* \w+ : the tokens made of word characters; "#" and "!" are not.
IsWord(tok) == tok \notin {"#", "!", ""}

\* parseInt(intString, 10)
int(intString) == (CHOOSE i \in 1..Len(Digits) : Digits[i] = intString) - 1

\* String(n), the property key a number indexes an object with.
key(n) == Digits[n + 1]

\* /value (\d+) goes to bot (\d+)/ matched at token i of the line.
InputAt(line, i) ==
    /\ i + 5 <= Len(line)
    /\ line[i] = "value"
    /\ IsDigits(line[i + 1])
    /\ line[i + 2] = "goes"
    /\ line[i + 3] = "to"
    /\ line[i + 4] = "bot"
    /\ IsDigits(line[i + 5])

\* /bot (\d+) gives low to (\w+) (\d+) and high to (\w+) (\d+)/ matched at token i.
GiveAt(line, i) ==
    /\ i + 11 <= Len(line)
    /\ line[i] = "bot"
    /\ IsDigits(line[i + 1])
    /\ line[i + 2] = "gives"
    /\ line[i + 3] = "low"
    /\ line[i + 4] = "to"
    /\ IsWord(line[i + 5])
    /\ IsDigits(line[i + 6])
    /\ line[i + 7] = "and"
    /\ line[i + 8] = "high"
    /\ line[i + 9] = "to"
    /\ IsWord(line[i + 10])
    /\ IsDigits(line[i + 11])

\* String.prototype.match without the g flag: the leftmost match, 0 for null.
Leftmost(hits) == IF hits = {} THEN 0 ELSE CHOOSE i \in hits : \A j \in hits : i <= j

matchInput(line) == Leftmost({i \in 1..Len(line) : InputAt(line, i)})

matchGive(line) == Leftmost({i \in 1..Len(line) : GiveAt(line, i)})

\* parse throws "Bad line" when neither pattern is found in the line.
parseThrows(line) == matchInput(line) = 0 /\ matchGive(line) = 0

\* The action parse returns for the line. ref is the identity of the object
\* (one fresh object per line; consumeAction compares with !==). A record
\* carries the fields of both action types; the ones its type lacks are
\* "" or 0 and never read.
parse(line, ref) ==
    LET i == matchInput(line)
        g == matchGive(line)
    IN  IF i # 0
        THEN [ref |-> ref, type |-> "INPUT", bot |-> line[i + 5], value |-> int(line[i + 1]),
              lowType |-> "", lowId |-> "", highType |-> "", highId |-> ""]
        ELSE [ref |-> ref, type |-> "GIVE", bot |-> line[g + 1], value |-> 0,
              lowType |-> line[g + 5], lowId |-> line[g + 6],
              highType |-> line[g + 10], highId |-> line[g + 11]]

----------------------------------------------------------------------------
\* Utils

EmptyMap == [x \in {} |-> 0]

\* Object.assign({}, source, delta): the keys of both, delta's values winning.
assign(source, delta) ==
    [x \in DOMAIN source \cup DOMAIN delta |->
        IF x \in DOMAIN delta THEN delta[x] ELSE source[x]]

\* { [id]: v }
Single(id, v) == [x \in {id} |-> v]

RECURSIVE SortAsc(_)
\* Array.prototype.sort((a, b) => a - b)
SortAsc(s) ==
    IF Len(s) <= 1 THEN s
    ELSE LET m == CHOOSE i \in 1..Len(s) : \A j \in 1..Len(s) : s[i] <= s[j]
             rest == [k \in 1..(Len(s) - 1) |-> IF k < m THEN s[k] ELSE s[k + 1]]
         IN  <<s[m]>> \o SortAsc(rest)

----------------------------------------------------------------------------
\* Bot logic

createBot(id) == [id |-> id, values |-> <<>>, history |-> <<>>]

\* getBot that never looks the bot up.
getBotFresh(bots, id) == createBot(id)

getBot(bots, id) == IF id \in DOMAIN bots THEN bots[id] ELSE createBot(id)

\* set without its guard.
setNeverThrows(bot) == FALSE

\* set throws when the bot already has two values.
setThrows(bot) == Len(bot.values) >= 2

\* set without the sort.
setUnsorted(bot, value) ==
    [bot EXCEPT !.values = Append(bot.values, value),
                !.history = Append(bot.history, value)]

set(bot, value) ==
    [bot EXCEPT !.values = SortAsc(Append(bot.values, value)),
                !.history = Append(bot.history, value)]

giveFromIndexThrows(receiver) == setThrows(receiver)

\* index is the 1-based position (the code's index + 1).
giveFromIndex(giver, receiver, index) ==
    LET newReceiver == set(receiver, giver.values[index])
    IN  Single(newReceiver.id, newReceiver)

\* consumeAction that removes nothing.
consumeNone(actions, completedAction) == actions

\* consumeAction dropping the head of the list instead of the completed action.
consumeHead(actions, completedAction) ==
    IF actions = <<>> THEN actions ELSE Tail(actions)

consumeAction(actions, completedAction) ==
    SelectSeq(actions, LAMBDA a : a.ref # completedAction.ref)

getInputThrows(st, action) == setThrows(getBot(st.bots, action.bot))

\* getInput that leaves its action pending.
getInputKeeps(st, action) ==
    LET updatedBot == set(getBot(st.bots, action.bot), action.value)
    IN  [st EXCEPT !.bots = assign(st.bots, Single(updatedBot.id, updatedBot))]

getInput(st, action) ==
    LET updatedBot == set(getBot(st.bots, action.bot), action.value)
        nextBots == assign(st.bots, Single(updatedBot.id, updatedBot))
        actions == consumeAction(st.actions, action)
    IN  [st EXCEPT !.bots = nextBots, !.actions = actions]

\* give's deliveries guarded for the low destination only.
giveThrowsLowOnly(st, action) ==
    LET giver == getBot(st.bots, action.bot)
    IN  /\ Len(giver.values) >= 2
        /\ action.lowType = "bot" /\ giveFromIndexThrows(getBot(st.bots, action.lowId))

giveThrows(st, action) ==
    LET giver == getBot(st.bots, action.bot)
    IN  /\ Len(giver.values) >= 2
        /\ \/ action.lowType = "bot" /\ giveFromIndexThrows(getBot(st.bots, action.lowId))
           \/ action.highType = "bot" /\ giveFromIndexThrows(getBot(st.bots, action.highId))

give(st, action) ==
    LET bots == st.bots
        outputs == st.outputs
        giver == getBot(bots, action.bot)
    IN  IF Len(giver.values) < 2 THEN st
        ELSE
        LET lowBot == IF action.lowType = "bot"
                      THEN giveFromIndex(giver, getBot(bots, action.lowId), 1)
                      ELSE EmptyMap
            highBot == IF action.highType = "bot"
                       THEN giveFromIndex(giver, getBot(bots, action.highId), 2)
                       ELSE EmptyMap
            lowOutput == IF action.lowType = "output"
                         THEN Single(action.lowId, giver.values[1])
                         ELSE EmptyMap
            highOutput == IF action.highType = "output"
                          THEN Single(action.highId, giver.values[2])
                          ELSE EmptyMap
            outGiver == [giver EXCEPT !.values = <<>>]
            nextActions == consumeAction(st.actions, action)
            nextBots == assign(assign(assign(bots, Single(giver.id, outGiver)), lowBot), highBot)
            nextOutputs == assign(assign(outputs, lowOutput), highOutput)
        IN  [st EXCEPT !.bots = nextBots, !.actions = nextActions, !.outputs = nextOutputs]

\* parse yields no other type, so the default branch ('bad action') is dead.
updateStateThrows(st, action) ==
    IF action.type = "INPUT" THEN getInputThrows(st, action) ELSE giveThrows(st, action)

\* updateState that consumes a GIVE whether or not it could be carried out.
updateStateConsumes(st, action) ==
    IF action.type = "INPUT" THEN getInput(st, action)
    ELSE [give(st, action) EXCEPT !.actions = consumeAction(st.actions, action)]

\* updateState that does nothing once no action is pending.
updateStateIdle(st, action) ==
    IF st.actions = <<>> THEN st
    ELSE IF action.type = "INPUT" THEN getInput(st, action) ELSE give(st, action)

updateState(st, action) ==
    IF action.type = "INPUT" THEN getInput(st, action) ELSE give(st, action)

getInitialState(actions) == [actions |-> actions, bots |-> EmptyMap, outputs |-> EmptyMap]

\* The state variable before getInitialState has run.
NoState == [actions |-> <<>>, bots |-> EmptyMap, outputs |-> EmptyMap]

\* A number or NaN.
Num(n) == [nan |-> FALSE, num |-> n]
NaN == [nan |-> TRUE, num |-> 0]

\* undefined * x and NaN * x are NaN.
Times(a, b) == IF a.nan \/ b.nan THEN NaN ELSE Num(a.num * b.num)

RECURSIVE productFrom(_, _, _)
productFrom(outputIds, st, product) ==
    IF outputIds = <<>> THEN product
    ELSE LET id == key(Head(outputIds))
             v == IF id \in DOMAIN st.outputs THEN Num(st.outputs[id]) ELSE NaN
         IN  productFrom(Tail(outputIds), st, Times(v, product))

productOutputs(outputIds, st) == productFrom(outputIds, st, Num(1))

----------------------------------------------------------------------------
\* Inputs: the text handed to the pipeline, one token sequence per line.

InputLine(v, b) == <<"value", v, "goes", "to", "bot", b>>

GiveLine(b, lowType, lowId, highType, highId) ==
    <<"bot", b, "gives", "low", "to", lowType, lowId, "and", "high", "to", highType, highId>>

\* Lines combined freely into the short inputs: well-formed lines, a GIVE whose
\* low destination kind is neither bot nor output, an INPUT pattern embedded
\* in other text, a line matching neither pattern and the empty line.
SmallLines ==
    { InputLine("1", "1"),
      InputLine("2", "1"),
      GiveLine("1", "output", "0", "output", "1"),
      GiveLine("1", "crate", "0", "output", "1"),
      <<"#">> \o InputLine("3", "1") \o <<"!">>,
      <<"value", "3", "went", "to", "bot", "1">>,
      <<>> }

RECURSIVE SeqsUpTo(_, _)
SeqsUpTo(S, n) ==
    IF n = 0 THEN {<<>>}
    ELSE LET shorter == SeqsUpTo(S, n - 1)
         IN  shorter \cup {Append(s, x) : s \in shorter, x \in S}

\* input.trim().split('\n') has at least one line.
ShortInputs == SeqsUpTo(SmallLines, MaxLen) \ {<<>>}

\* The six-line reference puzzle.
Sample ==
    << InputLine("5", "2"),
       GiveLine("2", "bot", "1", "bot", "0"),
       InputLine("3", "1"),
       GiveLine("1", "output", "1", "bot", "0"),
       GiveLine("0", "output", "2", "output", "0"),
       InputLine("2", "2") >>

\* Two bots in a chain.
Chain ==
    << InputLine("2", "1"),
       InputLine("1", "1"),
       GiveLine("1", "bot", "2", "output", "0"),
       InputLine("3", "2"),
       GiveLine("2", "output", "1", "output", "2") >>

\* Both values of bot 1 go to bot 2.
SameDest ==
    << InputLine("1", "1"),
       InputLine("2", "1"),
       GiveLine("1", "bot", "2", "bot", "2"),
       GiveLine("2", "output", "0", "output", "1") >>

\* Bot 1 names itself as its low destination.
SelfGive ==
    << InputLine("1", "1"),
       InputLine("2", "1"),
       GiveLine("1", "bot", "1", "output", "0") >>

\* Two bots waiting for each other.
Cyclic ==
    << InputLine("1", "1"),
       InputLine("2", "2"),
       GiveLine("1", "bot", "2", "output", "0"),
       GiveLine("2", "bot", "1", "output", "1") >>

\* Bot 1 gives its high value to bot 2, which is full.
GiveOverflow ==
    << InputLine("1", "1"),
       InputLine("2", "1"),
       InputLine("3", "2"),
       InputLine("4", "2"),
       GiveLine("1", "output", "0", "bot", "2") >>

\* Both values of bot 1 go to output 0.
SameOutput ==
    << InputLine("1", "1"),
       InputLine("2", "1"),
       GiveLine("1", "output", "0", "output", "0") >>

Puzzles == {Sample, Chain, SameDest, SelfGive, Cyclic, GiveOverflow, SameOutput}

\* Every ordering of the lines of a puzzle.
Orders(puzzle) ==
    {[i \in 1..Len(puzzle) |-> puzzle[p[i]]] : p \in Permutations(1..Len(puzzle))}

Inputs == ShortInputs \cup UNION {Orders(puzzle) : puzzle \in Puzzles}

\* The maze search is not running.
MazeIdle ==
    /\ md5 = <<>>
    /\ queue = <<>>
    /\ mpc = "idle"
    /\ logged = <<>>
    /\ truncated = FALSE

----------------------------------------------------------------------------
\* The pipeline

Init ==
    /\ lines \in Inputs
    /\ parsed = <<>>
    /\ state = NoState
    /\ iteration = 0
    /\ snapshot = <<>>
    /\ idx = 0
    /\ pc = "parse"
    /\ err = ""
    /\ result = NaN
    /\ deferred = {}
    /\ MazeIdle

\* map(parse), one line at a time.
ParseLine ==
    /\ pc = "parse"
    /\ Len(parsed) < Len(lines)
    /\ ~parseThrows(lines[Len(parsed) + 1])
    /\ parsed' = Append(parsed, parse(lines[Len(parsed) + 1], Len(parsed) + 1))
    /\ UNCHANGED <<lines, state, iteration, snapshot, idx, pc, err, result, deferred>>
    /\ UNCHANGED mazeVars

ParseThrow ==
    /\ pc = "parse"
    /\ Len(parsed) < Len(lines)
    /\ parseThrows(lines[Len(parsed) + 1])
    /\ pc' = "error"
    /\ err' = "Bad line"
    /\ UNCHANGED <<lines, parsed, state, iteration, snapshot, idx, result, deferred>>
    /\ UNCHANGED mazeVars

\* getInitialState, then the call settle(state) with iteration = 0.
GetInitialState ==
    /\ pc = "parse"
    /\ Len(parsed) = Len(lines)
    /\ state' = getInitialState(parsed)
    /\ iteration' = 0
    /\ pc' = "settle"
    /\ UNCHANGED <<lines, parsed, snapshot, idx, err, result, deferred>>
    /\ UNCHANGED mazeVars

\* settle giving up one pass early.
settleReturnsEarly(st, it) == Len(st.actions) = 0 \/ it >= MaxIteration

\* settle's test on entry.
settleReturns(st, it) == Len(st.actions) = 0 \/ it > MaxIteration

SettleReturn ==
    /\ pc = "settle"
    /\ settleReturns(state, iteration)
    /\ pc' = "product"
    /\ UNCHANGED <<lines, parsed, state, iteration, snapshot, idx, err, result, deferred>>
    /\ UNCHANGED mazeVars

\* actions.reduce(updateState, state) starts: reduce walks the array it was
\* called on, the pending list of the state the pass starts from.
SettlePass ==
    /\ pc = "settle"
    /\ ~settleReturns(state, iteration)
    /\ snapshot' = state.actions
    /\ idx' = 1
    /\ deferred' = {}
    /\ pc' = "reduce"
    /\ UNCHANGED <<lines, parsed, state, iteration, err, result>>
    /\ UNCHANGED mazeVars

\* A GIVE reached while its giver has fewer than two values.
IsDeferred(st, action) ==
    action.type = "GIVE" /\ Len(getBot(st.bots, action.bot).values) < 2

ReduceStep ==
    /\ pc = "reduce"
    /\ idx <= Len(snapshot)
    /\ ~updateStateThrows(state, snapshot[idx])
    /\ state' = updateState(state, snapshot[idx])
    /\ idx' = idx + 1
    /\ deferred' = IF IsDeferred(state, snapshot[idx])
                   THEN deferred \cup {snapshot[idx].ref}
                   ELSE deferred
    /\ UNCHANGED <<lines, parsed, iteration, snapshot, pc, err, result>>
    /\ UNCHANGED mazeVars

ReduceThrow ==
    /\ pc = "reduce"
    /\ idx <= Len(snapshot)
    /\ updateStateThrows(state, snapshot[idx])
    /\ pc' = "error"
    /\ err' = "already has two values"
    /\ UNCHANGED <<lines, parsed, state, iteration, snapshot, idx, result, deferred>>
    /\ UNCHANGED mazeVars

\* The reduce is over: settle(nextState, iteration + 1).
ReduceEnd ==
    /\ pc = "reduce"
    /\ idx > Len(snapshot)
    /\ iteration' = iteration + 1
    /\ pc' = "settle"
    /\ UNCHANGED <<lines, parsed, state, snapshot, idx, err, result, deferred>>
    /\ UNCHANGED mazeVars

\* curry(productOutputs)([0, 1, 2]), console.log
Product ==
    /\ pc = "product"
    /\ result' = productOutputs(<<0, 1, 2>>, state)
    /\ pc' = "done"
    /\ UNCHANGED <<lines, parsed, state, iteration, snapshot, idx, err, deferred>>
    /\ UNCHANGED mazeVars

Next ==
    \/ ParseLine
    \/ ParseThrow
    \/ GetInitialState
    \/ SettleReturn
    \/ SettlePass
    \/ ReduceStep
    \/ ReduceThrow
    \/ ReduceEnd
    \/ Product

Spec == Init /\ [][Next]_vars

\* The script runs to completion: no step waits on anything.
FairSpec == Spec /\ WF_vars(Next)

----------------------------------------------------------------------------
\* updateState on its own: one application to a state and an action drawn
\* from small sets, as the step of a reduce over the one-action list.

\* A bot as the bot map can hold it: with one value, with two, or emptied by
\* its GIVE.
BotStates(id) ==
    { [id |-> id, values |-> <<1>>, history |-> <<1>>],
      [id |-> id, values |-> <<1, 2>>, history |-> <<2, 1>>],
      [id |-> id, values |-> <<>>, history |-> <<2, 1>>] }

BotMaps ==
    {EmptyMap}
    \cup {Single("1", b) : b \in BotStates("1")}
    \cup {Single("2", b) : b \in BotStates("2")}
    \cup {assign(Single("1", b), Single("2", c)) : b \in BotStates("1"), c \in BotStates("2")}

OutputMaps == {EmptyMap, Single("0", 1)}

UpdateActions ==
    { parse(InputLine("3", "1"), 1),
      parse(InputLine("3", "2"), 1),
      parse(GiveLine("1", "bot", "2", "output", "0"), 1),
      parse(GiveLine("1", "output", "0", "output", "1"), 1),
      parse(GiveLine("2", "bot", "1", "bot", "1"), 1) }

\* The pending list holds the action behind another one, or nothing at all.
PendingLists(action) == {<<>>, <<parse(InputLine("4", "2"), 2), action>>}

InitUpdate ==
    /\ lines = <<>>
    /\ parsed = <<>>
    /\ \E action \in UpdateActions :
        /\ snapshot = <<action>>
        /\ state \in [actions : PendingLists(action), bots : BotMaps, outputs : OutputMaps]
    /\ iteration = 0
    /\ idx = 1
    /\ pc = "reduce"
    /\ err = ""
    /\ result = NaN
    /\ deferred = {}
    /\ MazeIdle

NextUpdate ==
    \/ ReduceStep
    \/ ReduceThrow

UpdateSpec == InitUpdate /\ [][NextUpdate]_vars

----------------------------------------------------------------------------
\* The maze search (src/2016/17a.js)

\* Longest path, in moves, that the model follows; longer ones are left out
\* and the run is marked truncated.
MaxDepth == 8

\* Number of classes of paths the stand-in hash tells apart.
HashClasses == 2

\* The puzzle's passcode, as characters.
Passcode == <<"g", "d", "j", "j", "y", "n", "i", "y">>

\* Characters a digest is drawn from: 'a' reads as closed, 'b' as open.
HexChars == {"a", "b"}

\* The first four characters of a digest.
Prefixes == [1..4 -> HexChars]

\* The hash as an arbitrary function of the path: one digest prefix per
\* class of paths.
Hashes == [0..(HashClasses - 1) -> Prefixes]

MoveCode(c) ==
    CASE c = "U" -> 1
      [] c = "D" -> 2
      [] c = "L" -> 3
      [] c = "R" -> 4
      [] OTHER -> 0

RECURSIVE Weighted(_, _)
\* The first n characters of a path, each move weighted by where it stands.
Weighted(path, n) ==
    IF n = 0 THEN 0 ELSE Weighted(path, n - 1) + n * MoveCode(path[n])

\* The class of a path.
Digest(path) == Weighted(path, Len(path)) % HashClasses

isOpen(sideChar) == sideChar \in {"b", "c", "d", "e", "f"}

\* [up, down, left, right]
getSides(path) == [i \in 1..4 |-> isOpen(md5[Digest(path)][i])]

getNeighbours(pos, path) ==
    LET x == pos[1]
        y == pos[2]
        sides == getSides(path)
        up    == IF y > 0 /\ sides[1]
                 THEN << <<<<x, y - 1>>, Append(path, "U")>> >> ELSE <<>>
        down  == IF y < 3 /\ sides[2]
                 THEN << <<<<x, y + 1>>, Append(path, "D")>> >> ELSE <<>>
        left  == IF x > 0 /\ sides[3]
                 THEN << <<<<x - 1, y>>, Append(path, "L")>> >> ELSE <<>>
        right == IF x < 3 /\ sides[4]
                 THEN << <<<<x + 1, y>>, Append(path, "R")>> >> ELSE <<>>
    IN  up \o down \o left \o right

\* Moves made along a path.
Moves(code) == Len(code) - Len(Passcode)

\* The neighbours put ahead of what is waiting: a depth-first order.
pushFront(q, neighbours) == neighbours \o q

\* forEach(queue.push) puts the neighbours behind what is waiting.
push(q, neighbours) == q \o neighbours

\* queue.shift()
shift(q) == SubSeq(q, 2, Len(q))

MazeInit ==
    /\ lines = <<>>
    /\ parsed = <<>>
    /\ state = NoState
    /\ iteration = 0
    /\ snapshot = <<>>
    /\ idx = 0
    /\ pc = "done"
    /\ err = ""
    /\ result = NaN
    /\ deferred = {}
    /\ md5 \in Hashes
    /\ queue = << <<<<0, 0>>, Passcode>> >>
    /\ mpc = "search"
    /\ logged = <<>>
    /\ truncated = FALSE

\* The head of the queue is the bottom right square: print its path and stop.
SearchFound ==
    /\ mpc = "search"
    /\ queue # <<>>
    /\ queue[1][1] = <<3, 3>>
    /\ logged' = queue[1][2]
    /\ mpc' = "found"
    /\ UNCHANGED <<md5, queue, truncated>>
    /\ UNCHANGED botVars

\* One turn of the loop: push the head's neighbours, shift the head off.
SearchExpand ==
    /\ mpc = "search"
    /\ queue # <<>>
    /\ queue[1][1] # <<3, 3>>
    /\ Moves(queue[1][2]) < MaxDepth
    /\ queue' = shift(push(queue, getNeighbours(queue[1][1], queue[1][2])))
    /\ UNCHANGED <<md5, mpc, logged, truncated>>
    /\ UNCHANGED botVars

\* The head is as long as the model follows: it is shifted off unexpanded.
SearchCut ==
    /\ mpc = "search"
    /\ queue # <<>>
    /\ queue[1][1] # <<3, 3>>
    /\ Moves(queue[1][2]) >= MaxDepth
    /\ queue' = shift(queue)
    /\ truncated' = TRUE
    /\ UNCHANGED <<md5, mpc, logged>>
    /\ UNCHANGED botVars

\* queue[0] of an empty queue is undefined: destructuring it is a TypeError.
SearchThrow ==
    /\ mpc = "search"
    /\ queue = <<>>
    /\ mpc' = IF truncated THEN "cut" ELSE "error"
    /\ UNCHANGED <<md5, queue, logged, truncated>>
    /\ UNCHANGED botVars

MazeNext ==
    \/ SearchFound
    \/ SearchExpand
    \/ SearchCut
    \/ SearchThrow

MazeSpec == MazeInit /\ [][MazeNext]_vars

\* The loop never waits on anything.
MazeFairSpec == MazeSpec /\ WF_vars(MazeNext)

TypeOK ==
    /\ pc \in {"parse", "settle", "reduce", "product", "done", "error"}
    /\ iteration \in 0..(MaxIteration + 1)

----------------------------------------------------------------------------
\* Vocabulary of the properties

Refs(actions) == {actions[i].ref : i \in 1..Len(actions)}

Pending(ref) == ref \in Refs(state.actions)

\* The run has raised set's error.
Aborted == pc = "error" /\ err = "already has two values"

\* All lines have been parsed.
ParsedAll == Len(parsed) = Len(lines)

----------------------------------------------------------------------------
\* C3: in every reachable state every bot's value buffer has length 0, 1 or 2.
C3_BufferAtMostTwo ==
    \A b \in DOMAIN state.bots : Len(state.bots[b].values) \in {0, 1, 2}

\* A third value was on its way to a bot holding two.
C3_Witness ==
    /\ Aborted
    /\ \E b \in DOMAIN state.bots : Len(state.bots[b].values) = 2

\* C4: for the six-line reference puzzle settle ends with nothing pending and
\* outputs 0 = 5, 1 = 2, 2 = 3, whose product is 30.
C4_SampleAnswer ==
    (lines = Sample /\ pc \in {"product", "done"}) =>
        /\ state.actions = <<>>
        /\ state.outputs = ("0" :> 5) @@ ("1" :> 2) @@ ("2" :> 3)
        /\ productOutputs(<<0, 1, 2>>, state) = Num(30)
        /\ pc = "done" => result = Num(30)

C4_Witness == lines = Sample /\ pc = "done" /\ result = Num(30)

\* C8: a GIVE reached in a pass while its giver holds fewer than two values is
\* still pending for the rest of that pass and at its end, whatever the giver
\* receives later in the pass; a GIVE leaves the pending list only in a step
\* that applies it to a giver holding two values.
C8_DeferredStaysPending ==
    /\ [](\A ref \in deferred : Pending(ref))
    /\ [][\A i \in 1..Len(state.actions) :
            (state.actions[i].type = "GIVE" /\ state.actions[i].ref \notin Refs(state'.actions))
            => /\ pc = "reduce" /\ idx <= Len(snapshot)
               /\ snapshot[idx] = state.actions[i]
               /\ Len(getBot(state.bots, state.actions[i].bot).values) = 2]_vars

\* A pass has ended with a deferred GIVE whose giver got its second value
\* later in that pass.
C8_Witness ==
    /\ pc = "settle"
    /\ \E i \in 1..Len(state.actions) :
        /\ state.actions[i].ref \in deferred
        /\ Len(getBot(state.bots, state.actions[i].bot).values) = 2

----------------------------------------------------------------------------
\* Instruction sets

\* The bots the actions refer to.
BotsOf(actions) ==
    UNION {{actions[i].bot}
           \cup (IF actions[i].lowType = "bot" THEN {actions[i].lowId} ELSE {})
           \cup (IF actions[i].highType = "bot" THEN {actions[i].highId} ELSE {})
           : i \in 1..Len(actions)}

Count(S) == Cardinality(S)

\* How many values the actions send to bot b.
Deliveries(actions, b) ==
    Count({i \in 1..Len(actions) : actions[i].type = "INPUT" /\ actions[i].bot = b})
    + Count({i \in 1..Len(actions) : actions[i].lowType = "bot" /\ actions[i].lowId = b})
    + Count({i \in 1..Len(actions) : actions[i].highType = "bot" /\ actions[i].highId = b})

\* The (action, side) pairs that write output o.
OutputWriters(actions, o) ==
    {<<i, "low">> : i \in {j \in 1..Len(actions) :
                            actions[j].lowType = "output" /\ actions[j].lowId = o}}
    \cup {<<i, "high">> : i \in {j \in 1..Len(actions) :
                            actions[j].highType = "output" /\ actions[j].highId = o}}

OutputsOf(actions) ==
    UNION {(IF actions[i].lowType = "output" THEN {actions[i].lowId} ELSE {})
           \cup (IF actions[i].highType = "output" THEN {actions[i].highId} ELSE {})
           : i \in 1..Len(actions)}

\* A valid instruction set: every destination is a bot or an output, every
\* bot is sent exactly two values and has exactly one GIVE, and every output
\* is written by one GIVE outcome.
Valid(actions) ==
    /\ \A i \in 1..Len(actions) : actions[i].type = "GIVE" =>
            actions[i].lowType \in {"bot", "output"} /\ actions[i].highType \in {"bot", "output"}
    /\ \A b \in BotsOf(actions) :
        /\ Deliveries(actions, b) = 2
        /\ Count({i \in 1..Len(actions) : actions[i].type = "GIVE" /\ actions[i].bot = b}) = 1
    /\ \A o \in OutputsOf(actions) : Count(OutputWriters(actions, o)) = 1

\* b gives to c.
GivesTo(actions, b, c) ==
    \E i \in 1..Len(actions) :
        /\ actions[i].type = "GIVE" /\ actions[i].bot = b
        /\ \/ actions[i].lowType = "bot" /\ actions[i].lowId = c
           \/ actions[i].highType = "bot" /\ actions[i].highId = c

RECURSIVE ReachedIn(_, _, _)
\* The bots reached from the set S of bots in 1..n gives.
ReachedIn(actions, S, n) ==
    IF n = 0 THEN {}
    ELSE LET next == {c \in BotsOf(actions) : \E b \in S : GivesTo(actions, b, c)}
         IN  next \cup ReachedIn(actions, next, n - 1)

\* No bot's values can come back to it.
Acyclic(actions) ==
    \A b \in BotsOf(actions) : b \notin ReachedIn(actions, {b}, Count(BotsOf(actions)))

\* No GIVE sends both of its values to one and the same bot.
TwoDestinations(actions) ==
    \A i \in 1..Len(actions) :
        ~(actions[i].type = "GIVE" /\ actions[i].lowType = "bot"
          /\ actions[i].highType = "bot" /\ actions[i].lowId = actions[i].highId)

NumBots == Count(BotsOf(parsed))

----------------------------------------------------------------------------
\* C1 as stated: for every valid instruction set with no cyclic give-dependency,
\* in every order of its lines, nothing is pending once as many passes have
\* been made as there are bots.
C1_SettledInNumBotsPasses ==
    (ParsedAll /\ Valid(parsed) /\ Acyclic(parsed) /\ pc = "settle" /\ iteration >= NumBots)
        => state.actions = <<>>

\* C1 as amended: for every valid instruction set with no cyclic give-dependency
\* in which no GIVE sends both values to the same bot, and of no more bots
\* than settle's ceiling lets it make passes after the first, in every order
\* of its lines, settle raises no error and nothing is pending once one more
\* pass has been made than there are bots; settle returns with nothing pending.
C1_SettledInNumBotsPlusOnePasses ==
    (/\ ParsedAll /\ Valid(parsed) /\ Acyclic(parsed) /\ TwoDestinations(parsed)
     /\ NumBots <= MaxIteration) =>
        /\ ~Aborted
        /\ (pc = "settle" /\ iteration >= NumBots + 1) => state.actions = <<>>
        /\ pc \in {"product", "done"} => (state.actions = <<>> /\ iteration <= NumBots + 1)

\* A valid instruction set of at least two bots that took one more pass than it has bots.
C1_Witness ==
    /\ ParsedAll /\ Valid(parsed) /\ Acyclic(parsed) /\ TwoDestinations(parsed)
    /\ NumBots >= 2
    /\ pc = "done" /\ state.actions = <<>> /\ iteration = NumBots + 1

----------------------------------------------------------------------------
\* C2 as stated: for every initial action list settle returns without raising
\* an error (the only error of a run is parse's).
C2_NeverRaises == pc = "error" => err = "Bad line"

\* C2 as amended: for every initial action list, cyclic and unsatisfiable ones
\* included, settle terminates. Either it returns the current state: no error
\* is raised, nothing is pending or the ceiling of passes is exhausted, and
\* the actions still pending are GIVEs; or it raises set's error, applying an
\* action that delivers to a bot already holding two values.
C2_TerminatesOrDuplicate ==
    /\ [](pc \in {"product", "done"} =>
            /\ err = ""
            /\ state.actions = <<>> \/ iteration = MaxIteration + 1
            /\ \A i \in 1..Len(state.actions) : state.actions[i].type = "GIVE")
    /\ [](Aborted =>
            /\ idx \in 1..Len(snapshot)
            /\ LET a == snapshot[idx]
               IN  \/ a.type = "INPUT" /\ Len(getBot(state.bots, a.bot).values) = 2
                   \/ /\ a.type = "GIVE" /\ Len(getBot(state.bots, a.bot).values) = 2
                      /\ \/ a.lowType = "bot" /\ Len(getBot(state.bots, a.lowId).values) = 2
                         \/ a.highType = "bot" /\ Len(getBot(state.bots, a.highId).values) = 2)
    /\ (pc = "settle" ~> pc \in {"product", "error"})

\* settle has returned a state in which GIVEs that can never fire are pending.
C2_Witness ==
    /\ pc = "done" /\ err = ""
    /\ state.actions # <<>>
    /\ iteration = MaxIteration + 1

----------------------------------------------------------------------------
\* C5 as stated: productOutputs never returns a value when a requested output
\* id is absent from the output mapping: whenever a product has been returned
\* and printed, outputs 0, 1 and 2 were all present.
C5_MissingOutputNeverReturns ==
    pc = "done" => \A n \in {0, 1, 2} : key(n) \in DOMAIN state.outputs

----------------------------------------------------------------------------
\* A line that is exactly of one of the two forms, its destination kinds
\* being bot or output.
ExactLine(line) ==
    \/ Len(line) = 6 /\ InputAt(line, 1)
    \/ /\ Len(line) = 12 /\ GiveAt(line, 1)
       /\ line[6] \in {"bot", "output"}
       /\ line[11] \in {"bot", "output"}

\* C6 as stated: parse yields an action only for a line that is exactly of one
\* of the two forms with destination kinds bot or output, and the
\* malformed-input error is raised before any simulation state exists.
C6_OnlyExactLinesParse ==
    /\ \A i \in 1..Len(parsed) : ExactLine(lines[i])
    /\ (pc = "error" /\ err = "Bad line") => state = NoState

----------------------------------------------------------------------------
\* The action a reduce step applies.
Applied == snapshot[idx]

\* C7 as stated: updateState applied, with any action, to a state whose pending
\* list is empty returns that state unchanged.
C7_EmptyPendingUnchanged ==
    [][(pc = "reduce" /\ idx <= Len(snapshot) /\ state.actions = <<>>) => state' = state]_vars

\* C7 as amended: updateState applied to a state whose pending list is empty
\* leaves the pending list empty and the outputs of an INPUT alone, but it
\* returns the state unchanged only for a GIVE whose giver holds fewer than
\* two values. An INPUT still adds its value to its bot and a GIVE whose
\* giver holds two values still empties the giver, unless the application
\* raises set's error.
C7_EmptyPendingStillApplies ==
    [][(pc = "reduce" /\ idx <= Len(snapshot) /\ state.actions = <<>>) =>
        /\ state'.actions = <<>>
        /\ IsDeferred(state, Applied) => state' = state
        /\ (Applied.type = "INPUT" /\ pc' # "error") =>
            /\ Applied.bot \in DOMAIN state'.bots
            /\ state'.bots[Applied.bot].values =
                   SortAsc(Append(getBot(state.bots, Applied.bot).values, Applied.value))
            /\ state'.outputs = state.outputs
            /\ state' # state
        /\ (Applied.type = "GIVE" /\ ~IsDeferred(state, Applied) /\ pc' # "error") =>
            /\ Applied.bot \in DOMAIN state'.bots
            /\ state'.bots[Applied.bot].values = <<>>
            /\ state' # state]_vars

\* An INPUT has been applied to a state with nothing pending and has changed a bot.
C7_Witness ==
    /\ pc = "reduce" /\ idx = 2
    /\ state.actions = <<>>
    /\ snapshot[1].type = "INPUT"
    /\ 3 \in {state.bots[snapshot[1].bot].values[k] :
                k \in 1..Len(state.bots[snapshot[1].bot].values)}

----------------------------------------------------------------------------
\* The bots a GIVE names as destinations.
DestBots(action) ==
    (IF action.lowType = "bot" THEN {action.lowId} ELSE {})
    \cup (IF action.highType = "bot" THEN {action.highId} ELSE {})

\* The values a GIVE of the giver's buffer sends to bot d.
SentTo(action, values, d) ==
    (IF action.lowType = "bot" /\ action.lowId = d THEN <<values[1]>> ELSE <<>>)
    \o (IF action.highType = "bot" /\ action.highId = d THEN <<values[2]>> ELSE <<>>)

\* C9 as stated: whenever a GIVE is applied to a giver holding exactly two
\* values and completes, every bot named as a destination has gained, in that
\* transition, the value or values sent to it; no delivered value is dropped.
C9_EveryDestinationGains ==
    [][(/\ pc = "reduce" /\ idx <= Len(snapshot)
        /\ Applied.type = "GIVE"
        /\ Len(getBot(state.bots, Applied.bot).values) = 2
        /\ pc' = "reduce") =>
        \A d \in DestBots(Applied) :
            /\ d \in DOMAIN state'.bots
            /\ state'.bots[d].values =
                 SortAsc(getBot(state.bots, d).values
                         \o SentTo(Applied, getBot(state.bots, Applied.bot).values, d))]_vars

----------------------------------------------------------------------------
\* C10 as stated: the driver performs no more than 100 passes: a pass is under
\* way only while fewer than 100 passes have been completed.
C10_AtMostHundredPasses == pc = "reduce" => iteration < MaxIteration

----------------------------------------------------------------------------
\* C11: applying a GIVE whose giver holds 0 or 1 values returns exactly the
\* input state: bots (no bot is materialised), outputs and the pending list,
\* this action at its position included, are unchanged, and no error is raised.
C11_DeferredGiveReturnsState ==
    [][(pc = "reduce" /\ idx <= Len(snapshot) /\ IsDeferred(state, Applied)) =>
        /\ state' = state
        /\ pc' = "reduce"
        /\ err' = err]_vars

\* A GIVE has just been deferred; its giver is still in no bot map and the
\* action is still pending.
C11_Witness ==
    /\ pc = "reduce" /\ idx > 1
    /\ snapshot[idx - 1].ref \in deferred
    /\ snapshot[idx - 1].bot \notin DOMAIN state.bots
    /\ Pending(snapshot[idx - 1].ref)

----------------------------------------------------------------------------
\* The action, applied to the state, delivers a value to a bot holding two.
DeliversToFull(st, action) ==
    \/ action.type = "INPUT" /\ Len(getBot(st.bots, action.bot).values) = 2
    \/ /\ action.type = "GIVE"
       /\ Len(getBot(st.bots, action.bot).values) = 2
       /\ \E d \in DestBots(action) : Len(getBot(st.bots, d).values) = 2

\* C12: a delivery to a bot that already holds two values, by an INPUT or by
\* either destination of a GIVE, raises an error and yields no successor
\* state (the giver keeps its buffer, no other destination and no output is
\* written, the action stays pending), and the run takes no further step.
C12_DeliveryToFullBotAborts ==
    /\ [][(pc = "reduce" /\ idx <= Len(snapshot) /\ DeliversToFull(state, Applied)) =>
            /\ pc' = "error"
            /\ err' = "already has two values"
            /\ state' = state]_vars
    /\ [][pc # "error"]_vars

\* A GIVE has aborted on its high destination: the giver still holds its two
\* values, the low destination, an output, is unwritten and the GIVE is pending.
C12_Witness ==
    /\ Aborted
    /\ Applied.type = "GIVE"
    /\ Len(getBot(state.bots, Applied.bot).values) = 2
    /\ Applied.lowType = "output" /\ Applied.lowId \notin DOMAIN state.outputs
    /\ Applied.highType = "bot" /\ Len(getBot(state.bots, Applied.highId).values) = 2
    /\ Pending(Applied.ref)

----------------------------------------------------------------------------
\* s is t with some of its actions left out, the others in t's order.
Subsequence(s, t) ==
    /\ \A i \in 1..Len(s) : \E j \in 1..Len(t) : t[j] = s[i]
    /\ \A i, j \in 1..Len(s) : i < j => s[i].ref < s[j].ref
    /\ \A i, j \in 1..Len(t) : i < j => t[i].ref < t[j].ref

\* C13: the pending list only shrinks. It is always an order-preserving
\* subsequence of the initial action list; every step leaves a subsequence of
\* what was pending before it, so a removed action never reappears; a pass
\* walks exactly the actions pending when it started; and an action is applied
\* successfully at most once: the actions a pass has still to visit are
\* pending, and those it has visited are pending only if they were deferred.
C13_PendingOnlyShrinks ==
    /\ [](pc \in {"settle", "reduce", "product", "done", "error"} /\ ParsedAll
            => Subsequence(state.actions, parsed))
    /\ [][(pc = "settle" \/ pc = "reduce" \/ pc = "product")
            => Subsequence(state'.actions, state.actions)]_vars
    /\ [][pc = "settle" /\ pc' = "reduce" => snapshot' = state.actions]_vars
    /\ [](pc = "reduce" =>
            /\ \A k \in 1..Len(snapshot) : k >= idx => Pending(snapshot[k].ref)
            /\ \A k \in 1..Len(snapshot) :
                 (k < idx /\ Pending(snapshot[k].ref)) => snapshot[k].ref \in deferred)

\* In the middle of a pass, the pending list has lost an action from between
\* two that remain.
C13_Witness ==
    /\ pc = "reduce"
    /\ Len(state.actions) >= 2
    /\ \E i \in 1..(Len(state.actions) - 1) :
         state.actions[i + 1].ref > state.actions[i].ref + 1

----------------------------------------------------------------------------
\* C14 as stated: for every well-formed acyclic instruction set, each pass that
\* starts with a non-empty pending list ends with a strictly smaller one.
C14_EveryPassShrinks ==
    (/\ ParsedAll /\ Valid(parsed) /\ Acyclic(parsed)
     /\ pc = "reduce" /\ idx > Len(snapshot))
        => Len(state.actions) < Len(snapshot)

----------------------------------------------------------------------------
\* C15: an INPUT is never deferred. Applied to a bot holding fewer than two
\* values it adds its value to that bot's buffer and leaves the pending list
\* in the same step; so once a first pass has ended no INPUT is pending.
C15_InputNeverDeferred ==
    /\ [][(/\ pc = "reduce" /\ idx <= Len(snapshot)
           /\ Applied.type = "INPUT"
           /\ Len(getBot(state.bots, Applied.bot).values) < 2) =>
            /\ pc' = "reduce"
            /\ Applied.bot \in DOMAIN state'.bots
            /\ state'.bots[Applied.bot].values =
                 SortAsc(Append(getBot(state.bots, Applied.bot).values, Applied.value))
            /\ Applied.ref \notin Refs(state'.actions)]_vars
    /\ [](iteration >= 1 =>
            \A i \in 1..Len(state.actions) : state.actions[i].type # "INPUT")

\* The first pass of a list with INPUTs has ended; only GIVEs are pending.
C15_Witness ==
    /\ pc = "settle" /\ iteration = 1
    /\ state.actions # <<>>
    /\ \E i \in 1..Len(parsed) : parsed[i].type = "INPUT"

----------------------------------------------------------------------------
Sorted(values) == \A i, j \in 1..Len(values) : i < j => values[i] <= values[j]

Elements(values) == {values[k] : k \in 1..Len(values)}

Smallest(values) == CHOOSE v \in Elements(values) : \A w \in Elements(values) : v <= w

Largest(values) == CHOOSE v \in Elements(values) : \A w \in Elements(values) : v >= w

\* C16 as stated: every bot buffer is sorted ascending in every reachable
\* state, and a completed GIVE sends the smaller of the giver's two values to
\* the low destination and the larger to the high destination (a bot gains
\* what is sent to it, an output holds it, the high value if both name the
\* same output), and leaves the giver's buffer empty.
C16_SmallerToLowLargerToHigh ==
    /\ [](\A b \in DOMAIN state.bots : Sorted(state.bots[b].values))
    /\ [][(/\ pc = "reduce" /\ idx <= Len(snapshot)
           /\ Applied.type = "GIVE"
           /\ Len(getBot(state.bots, Applied.bot).values) = 2
           /\ pc' = "reduce") =>
           LET held == getBot(state.bots, Applied.bot).values
               sent == <<Smallest(held), Largest(held)>>
           IN  /\ Applied.bot \in DOMAIN state'.bots
               /\ state'.bots[Applied.bot].values = <<>>
               /\ \A d \in DestBots(Applied) :
                    /\ d \in DOMAIN state'.bots
                    /\ state'.bots[d].values =
                         SortAsc(getBot(state.bots, d).values \o SentTo(Applied, sent, d))
               /\ Applied.highType = "output" =>
                    /\ Applied.highId \in DOMAIN state'.outputs
                    /\ state'.outputs[Applied.highId] = sent[2]
               /\ (Applied.lowType = "output"
                   /\ ~(Applied.highType = "output" /\ Applied.highId = Applied.lowId)) =>
                    /\ Applied.lowId \in DOMAIN state'.outputs
                    /\ state'.outputs[Applied.lowId] = sent[1]]_vars

----------------------------------------------------------------------------
\* C17 as stated: a GIVE by a bot holding two values that names the giver
\* itself as a bot destination (its other destination being free to receive)
\* completes: no error is raised, the action is consumed and the giver's
\* buffer holds what the GIVE sent to it.
C17_GiveToSelfCompletes ==
    [][(/\ pc = "reduce" /\ idx <= Len(snapshot)
        /\ Applied.type = "GIVE"
        /\ Len(getBot(state.bots, Applied.bot).values) = 2
        /\ Applied.bot \in DestBots(Applied)
        /\ \A d \in DestBots(Applied) \ {Applied.bot} : Len(getBot(state.bots, d).values) < 2) =>
        /\ pc' = "reduce"
        /\ Applied.ref \notin Refs(state'.actions)
        /\ state'.bots[Applied.bot].values =
             SortAsc(SentTo(Applied, getBot(state.bots, Applied.bot).values, Applied.bot))]_vars

----------------------------------------------------------------------------
\* How many times value v is held in the bot buffers and the output slots.
Held(v) ==
    Count({<<b, k>> \in (DOMAIN state.bots) \X (1..2) :
             k <= Len(state.bots[b].values) /\ state.bots[b].values[k] = v})
    + Count({o \in DOMAIN state.outputs : state.outputs[o] = v})

\* How many consumed INPUT actions carried value v.
Consumed(v) ==
    Count({i \in 1..Len(parsed) :
             parsed[i].type = "INPUT" /\ parsed[i].value = v /\ ~Pending(parsed[i].ref)})

\* C18 as stated: in every reachable state of a run in which no output id is
\* targeted by more than one GIVE outcome, the values held in all bot buffers
\* and output slots are, as a multiset, the values of the INPUT actions
\* consumed so far.
C18_ValuesConserved ==
    (/\ ParsedAll /\ pc \in {"settle", "reduce", "product", "done", "error"}
     /\ \A o \in OutputsOf(parsed) : Count(OutputWriters(parsed, o)) <= 1)
        => \A v \in 0..9 : Held(v) = Consumed(v)

----------------------------------------------------------------------------
\* Vocabulary of the maze properties

Start == <<<<0, 0>>, Passcode>>

Target == <<3, 3>>

\* The queue entries one move beyond those of a frontier.
Beyond(frontier) ==
    UNION {{getNeighbours(e[1], e[2])[i] :
               i \in 1..Len(getNeighbours(e[1], e[2]))} : e \in frontier}

RECURSIVE Walks(_)
\* The queue entries the doors allow after exactly n moves from the start.
Walks(n) == IF n = 0 THEN {Start} ELSE Beyond(Walks(n - 1))

RECURSIVE ReachesFrom(_, _)
\* Some walk of at most n more moves from the frontier ends on the target.
ReachesFrom(frontier, n) ==
    IF \E e \in frontier : e[1] = Target THEN TRUE
    ELSE IF n <= 0 \/ frontier = {} THEN FALSE
    ELSE ReachesFrom(Beyond(frontier), n - 1)

\* The target can be reached in at most n moves.
ReachableWithin(n) == n >= 0 /\ ReachesFrom({Start}, n)

\* C19: search only enqueues positions inside the 4x4 grid; the queue holds,
\* and so the loop dequeues, paths in non-decreasing length; the path printed
\* on reaching (3,3) is a walk the doors allow and no shorter walk reaches
\* (3,3); and whenever (3,3) can be reached (within the depth followed) the
\* search ends by printing, never by the TypeError of an empty queue: every
\* run ends, and one that ends without printing had no walk to (3,3).
C19_FirstReportedIsShortest ==
    /\ [](\A i \in 1..Len(queue) : queue[i][1] \in (0..3) \X (0..3))
    /\ [](\A i \in 1..(Len(queue) - 1) :
            Len(queue[i][2]) <= Len(queue[i + 1][2]))
    /\ [][(mpc = "search" /\ queue # <<>> /\ queue' # <<>>)
            => Len(queue[1][2]) <= Len(queue'[1][2])]_vars
    /\ [](mpc = "found" =>
            /\ <<Target, logged>> \in Walks(Moves(logged))
            /\ ~ReachableWithin(Moves(logged) - 1))
    /\ <>(mpc \in {"found", "error", "cut"})
    /\ [](mpc \in {"error", "cut"} => ~ReachableWithin(MaxDepth))

\* A path was printed that needed a detour: longer than the six moves of a
\* straight route, found after shorter paths were dequeued and dropped.
C19_Witness ==
    /\ mpc = "found"
    /\ Moves(logged) > 6
    /\ Len(queue) > 1

====
